---- MODULE Spec2Model ----
(***************************************************************************)
(* Model of fairfax_wpc_qpf_alert_feed.py: the layer resolver, the point   *)
(* sampler, the sliding 48h window aggregator, the best-forecast selection *)
(* and the alert decision of main(), and the three files main() persists.  *)
(*                                                                         *)
(* Conventions.                                                            *)
(*  - Precipitation amounts are fixed-point: an integer is a number of     *)
(*    hundredths of an inch (0.30" is 30).                                 *)
(*  - A Python value that may be None is a sequence: <<>> is None and      *)
(*    <<v>> is the value v.  A missing file is <<>> as well.               *)
(*  - A Python str is the sequence of its characters, so that split() and  *)
(*    int() are computed and not assumed.                                  *)
(*  - A Python dict is a function whose DOMAIN is its set of keys.         *)
(*  - Python lists are 0-based, TLA+ sequences 1-based: index i of the     *)
(*    code is index i+1 here.                                              *)
(***************************************************************************)
EXTENDS Integers, Sequences, FiniteSets, TLC

VARIABLES
    pc,           \* position inside main(), or "call"/"returned" of a function under test
    items_file,   \* items.json : <<>> (no file) or <<list of items>>
    feed_file,    \* feed.xml   : <<>> (no file) or <<list of rendered items>>
    state_file,   \* state.json : <<>> (no file) or <<[alert_active |-> BOOLEAN]>>
    items,        \* main(): local `items`
    state,        \* main(): local `state`
    root,         \* main(): local `root`, the fetched catalog (<<>> before the fetch)
    best_total,   \* main(): local `best_total`
    best_desc,    \* main(): local `best_desc` (<<>> is the empty string)
    alerted,      \* main(): local `should_alert`
    pre,          \* history: the three files as they were when the run started
    added,        \* history: every item ever written to items.json, newest first
    emitted,      \* history: add_item calls made by runs that completed
    crossings,    \* history: Inactive->Active crossings among completed runs
    last_total,   \* history: <<>> or <<best total of the last completed run>>
    arg,          \* input of the function under test
    ret           \* result of the function under test

vars == <<pc, items_file, feed_file, state_file, items, state, root, best_total,
          best_desc, alerted, pre, added, emitted, crossings, last_total, arg, ret>>

\* Everything of main() but its position
mainData == <<items_file, feed_file, state_file, items, state, root, best_total,
              best_desc, alerted, pre, added, emitted, crossings, last_total>>

----------------------------------------------------------------------------
(* Bounds of the model *)

MaxLen == 10     \* longest list of 6-hour samples given to the aggregator
MaxVal == 1      \* generated samples are 0..MaxVal hundredths of an inch
MaxLayers == 3   \* longest generated layer catalog
MaxAdded == 27   \* runs stop adding feed items after this many

(* Program constants *)

THRESHOLD_IN == 30
MAX_ITEMS == 25
WINDOW == 8
SENTINEL_HR == 9999

----------------------------------------------------------------------------
(* Python values *)

None == <<>>
Some(v) == <<v>>

\* dict.get(key), None when the key is absent
Get(d, key) == IF key \in DOMAIN d THEN Some(d[key]) ELSE None

Max(a, b) == IF a >= b THEN a ELSE b

\* s[a:b] of a sequence, with 1-based inclusive ends; empty when a > b
Slice(s, a, b) == [k \in 1..(b - a + 1) |-> s[a + k - 1]]

\* items[:n]
Take(s, n) == Slice(s, 1, IF Len(s) < n THEN Len(s) ELSE n)

----------------------------------------------------------------------------
(* Strings *)

DigitChars == <<"0", "1", "2", "3", "4", "5", "6", "7", "8", "9">>

IsDigit(c) == \E d \in 1..10 : DigitChars[d] = c

DigitVal(c) == (CHOOSE d \in 1..10 : DigitChars[d] = c) - 1

\* str(n) for n >= 0
RECURSIVE Str(_)
Str(n) == IF n < 10 THEN <<DigitChars[n + 1]>>
          ELSE Str(n \div 10) \o <<DigitChars[(n % 10) + 1]>>

\* s.split(sep): the list of the pieces of s between occurrences of sep
RECURSIVE Split(_, _)
Split(s, sep) ==
    IF \A k \in 1..Len(s) : s[k] # sep THEN <<s>>
    ELSE LET k == CHOOSE j \in 1..Len(s) :
                      s[j] = sep /\ \A h \in 1..(j - 1) : s[h] # sep
         IN <<Slice(s, 1, k - 1)>> \o Split(Slice(s, k + 1, Len(s)), sep)

\* s.strip() for blanks
RECURSIVE Strip(_)
Strip(s) == IF s = <<>> THEN s
            ELSE IF s[1] = " " THEN Strip(Tail(s))
            ELSE IF s[Len(s)] = " " THEN Strip(Slice(s, 1, Len(s) - 1))
            ELSE s

RECURSIVE DigitsVal(_)
DigitsVal(s) == IF s = <<>> THEN 0
                ELSE 10 * DigitsVal(Slice(s, 1, Len(s) - 1)) + DigitVal(s[Len(s)])

\* int(s): None when int() raises ValueError.  Blanks around the number and a
\* leading "+" are accepted, as int() accepts them; a "-" cannot reach int()
\* in start_hr, which splits on it first.
ParseInt(s) ==
    LET t == Strip(s)
        u == IF t # <<>> /\ t[1] = "+" THEN Tail(t) ELSE t
    IN IF u # <<>> /\ \A k \in 1..Len(u) : IsDigit(u[k])
       THEN Some(DigitsVal(u)) ELSE None

NAME_48_DAY12 == <<"Q","P","F"," ","4","8"," ","H","o","u","r"," ","D","a","y"," ","1","-","2">>
NAME_48_DAY45 == <<"Q","P","F"," ","4","8"," ","H","o","u","r"," ","D","a","y"," ","4","-","5">>
NAME_48_DAY67 == <<"Q","P","F"," ","4","8"," ","H","o","u","r"," ","D","a","y"," ","6","-","7">>
NAME_6H_PARENT == <<"Q","P","F","_","6","_","H","o","u","r","_","I","n","t","e","r","v","a","l","s">>

----------------------------------------------------------------------------
(* Layer resolver *)

\* service_root_json.get("layers", [])
Layers(service_root_json) ==
    IF "layers" \in DOMAIN service_root_json THEN service_root_json["layers"] ELSE <<>>

\* lyr.get("subLayers") or []
SubLayersOf(lyr) == IF "subLayers" \in DOMAIN lyr THEN lyr["subLayers"] ELSE <<>>

\* The nested entries in the order the second loop of find_layer_id_by_name visits them
RECURSIVE NestedFrom(_, _)
NestedFrom(layers, k) ==
    IF k > Len(layers) THEN <<>>
    ELSE SubLayersOf(layers[k]) \o NestedFrom(layers, k + 1)

\* The id of the first entry of a list with the given name: <<>> when there is
\* none, <<lyr.get("id")>> otherwise (so <<None>> for a named entry without id)
FirstNamed(entries, name) ==
    IF \E k \in 1..Len(entries) : Get(entries[k], "name") = Some(name)
    THEN LET k == CHOOSE j \in 1..Len(entries) :
                      /\ Get(entries[j], "name") = Some(name)
                      /\ \A h \in 1..(j - 1) : Get(entries[h], "name") # Some(name)
         IN Some(Get(entries[k], "id"))
    ELSE <<>>

find_layer_id_by_name(service_root_json, name) ==
    LET top == FirstNamed(Layers(service_root_json), name)
        sub == FirstNamed(NestedFrom(Layers(service_root_json), 1), name)
    IN IF top # <<>> THEN top[1]
       ELSE IF sub # <<>> THEN sub[1]
       ELSE None

\* start_hr(nm): int(nm.split("_")[1].split("-")[0]), 9999 on any exception
start_hr(nm) ==
    LET parts == Split(nm, "_")
    IN IF Len(parts) < 2 THEN SENTINEL_HR
       ELSE LET n == ParseInt(Split(parts[2], "-")[1])
            IN IF n = None THEN SENTINEL_HR ELSE n[1]

\* list.sort(key=...) is stable: insert x after every element whose key is <= its key
RECURSIVE InsertByStart(_, _)
InsertByStart(sorted, x) ==
    IF sorted = <<>> THEN <<x>>
    ELSE IF start_hr(x[2]) < start_hr(sorted[1][2]) THEN <<x>> \o sorted
    ELSE <<sorted[1]>> \o InsertByStart(Tail(sorted), x)

RECURSIVE SortByStart(_, _)
SortByStart(out, k) ==
    IF k = 0 THEN <<>> ELSE InsertByStart(SortByStart(out, k - 1), out[k])

\* The layers the loop of discover_6h_sublayers appends, in catalog order
RECURSIVE ChildrenFrom(_, _, _)
ChildrenFrom(layers, parent_id, k) ==
    IF k > Len(layers) THEN <<>>
    ELSE IF Get(layers[k], "parentLayerId") = parent_id
         THEN <<layers[k]>> \o ChildrenFrom(layers, parent_id, k + 1)
         ELSE ChildrenFrom(layers, parent_id, k + 1)

\* discover_6h_sublayers: [raised |-> TRUE] when lyr["id"] or lyr["name"] raises
\* KeyError, else the sorted list of <<id, name>>
discover_6h_sublayers(service_root_json) ==
    LET parent_id == find_layer_id_by_name(service_root_json, NAME_6H_PARENT)
        kids == ChildrenFrom(Layers(service_root_json), parent_id, 1)
    IN IF \E k \in 1..Len(kids) : ~({"id", "name"} \subseteq DOMAIN kids[k])
       THEN [raised |-> TRUE, out |-> <<>>]
       ELSE LET out == [k \in 1..Len(kids) |-> <<kids[k]["id"], kids[k]["name"]>>]
            IN [raised |-> FALSE, out |-> SortByStart(out, Len(out))]

----------------------------------------------------------------------------
(* Point sampler.  A response is the decoded JSON of one layer query: a dict *)
(* with an optional "features" list; an attribute value is [num |-> n] when  *)
(* it is an int or a float and [str |-> s] otherwise.                        *)

IsNumber(v) == "num" \in DOMAIN v

RECURSIVE MaxOf(_)
MaxOf(S) == LET x == CHOOSE y \in S : TRUE
            IN IF S = {x} THEN x ELSE Max(x, MaxOf(S \ {x}))

point_query(data) ==
    LET feats == IF "features" \in DOMAIN data THEN data["features"] ELSE <<>>
    IN IF feats = <<>> THEN 0
       ELSE LET attrs == IF "attributes" \in DOMAIN feats[1]
                         THEN feats[1]["attributes"] ELSE <<>>
                numeric == {attrs[a]["num"] : a \in {b \in DOMAIN attrs : IsNumber(attrs[b])}}
            IN IF "qpf" \in DOMAIN attrs /\ IsNumber(attrs["qpf"]) THEN attrs["qpf"]["num"]
               ELSE IF numeric # {} THEN MaxOf(numeric) ELSE 0

----------------------------------------------------------------------------
(* Window aggregator *)

\* sum(values[a:b]) with 1-based inclusive ends, clipped to the list as a slice is
RECURSIVE SumRange(_, _, _)
SumRange(values, a, b) ==
    IF a > b \/ a > Len(values) THEN 0
    ELSE values[a] + SumRange(values, a + 1, b)

\* The loop of lines 101-105 from (1-based) index i on, `best` being
\* (best_total, best_range) so far
RECURSIVE SlideFrom(_, _, _, _)
SlideFrom(values, names, i, best) ==
    IF i > Max(0, Len(values) - WINDOW + 1) THEN best
    ELSE LET total == SumRange(values, i, i + WINDOW - 1)
         IN SlideFrom(values, names, i + 1,
                IF total > best.total
                THEN [total |-> total,
                      range |-> Some([start |-> names[i], end |-> names[i + WINDOW - 1],
                                      total |-> total])]
                ELSE best)

\* The aggregator with `>=` for `>` at line 103: the last maximal window wins
RECURSIVE SlideFromGe(_, _, _, _)
SlideFromGe(values, names, i, best) ==
    IF i > Max(0, Len(values) - WINDOW + 1) THEN best
    ELSE LET total == SumRange(values, i, i + WINDOW - 1)
         IN SlideFromGe(values, names, i + 1,
                IF total >= best.total
                THEN [total |-> total,
                      range |-> Some([start |-> names[i], end |-> names[i + WINDOW - 1],
                                      total |-> total])]
                ELSE best)

sliding_ge(sublayers_ids, resp) ==
    LET values == [k \in 1..Len(sublayers_ids) |-> point_query(resp[sublayers_ids[k][1]])]
        names == [k \in 1..Len(sublayers_ids) |-> sublayers_ids[k][2]]
    IN SlideFromGe(values, names, 1, [total |-> 0, range |-> None])

\* The aggregator without line 104: best_total is never raised
RECURSIVE SlideFromNoUpdate(_, _, _, _)
SlideFromNoUpdate(values, names, i, best) ==
    IF i > Max(0, Len(values) - WINDOW + 1) THEN best
    ELSE LET total == SumRange(values, i, i + WINDOW - 1)
         IN SlideFromNoUpdate(values, names, i + 1,
                IF total > best.total
                THEN [total |-> best.total,
                      range |-> Some([start |-> names[i], end |-> names[i + WINDOW - 1],
                                      total |-> total])]
                ELSE best)

sliding_noupdate(sublayers_ids, resp) ==
    LET values == [k \in 1..Len(sublayers_ids) |-> point_query(resp[sublayers_ids[k][1]])]
        names == [k \in 1..Len(sublayers_ids) |-> sublayers_ids[k][2]]
    IN SlideFromNoUpdate(values, names, 1, [total |-> 0, range |-> None])

\* The aggregator looping over range(0, max(1, len(values) - 8 + 1)): a list
\* shorter than the window is summed as one partial window
sliding_partial(sublayers_ids, resp) ==
    LET values == [k \in 1..Len(sublayers_ids) |-> point_query(resp[sublayers_ids[k][1]])]
        names == [k \in 1..Len(sublayers_ids) |-> sublayers_ids[k][2]]
        n == Len(values)
    IN IF n >= WINDOW \/ n = 0 THEN SlideFrom(values, names, 1, [total |-> 0, range |-> None])
       ELSE LET total == SumRange(values, 1, n)
            IN IF total > 0
               THEN [total |-> total,
                     range |-> Some([start |-> names[1], end |-> names[n], total |-> total])]
               ELSE [total |-> 0, range |-> None]

\* `resp` gives the service's response for each layer id
sliding_48h_from_6h_layers(sublayers_ids, resp) ==
    LET values == [k \in 1..Len(sublayers_ids) |-> point_query(resp[sublayers_ids[k][1]])]
        names == [k \in 1..Len(sublayers_ids) |-> sublayers_ids[k][2]]
    IN SlideFrom(values, names, 1, [total |-> 0, range |-> None])

----------------------------------------------------------------------------
(* Best-forecast selection: lines 156-191 of main() *)

SlidingDesc(s_range) ==
    [src |-> "sliding", start |-> s_range.start, end |-> s_range.end, total |-> s_range.total]

FixedDesc(src, t) == [src |-> src, total |-> t]

\* Lines 165-170
AfterSliding(sixes, resp) ==
    IF sixes # <<>>
    THEN LET s == sliding_48h_from_6h_layers(sixes, resp)
         IN IF s.total > 0
            THEN [best_total |-> s.total,
                  best_desc |-> IF s.range # None THEN Some(SlidingDesc(s.range[1])) ELSE <<>>]
            ELSE [best_total |-> 0, best_desc |-> <<>>]
    ELSE [best_total |-> 0, best_desc |-> <<>>]

\* Lines 173-177, 180-184 and 187-191: one fixed 48h layer
AfterFixed(best, lid, src, resp) ==
    IF lid # None
    THEN LET t == point_query(resp[lid[1]])
         IN IF t > best.best_total
            THEN [best_total |-> t, best_desc |-> Some(FixedDesc(src, t))]
            ELSE best
    ELSE best

\* [raised |-> TRUE] when discover_6h_sublayers raises, else the best total
\* and its description
BestForecast(service_root_json, resp) ==
    LET lid_12 == find_layer_id_by_name(service_root_json, NAME_48_DAY12)
        lid_45 == find_layer_id_by_name(service_root_json, NAME_48_DAY45)
        lid_67 == find_layer_id_by_name(service_root_json, NAME_48_DAY67)
        sixes == discover_6h_sublayers(service_root_json)
    IN IF sixes.raised THEN [raised |-> TRUE, best_total |-> 0, best_desc |-> <<>>]
       ELSE LET b0 == AfterSliding(sixes.out, resp)
                b1 == AfterFixed(b0, lid_12, "day12", resp)
                b2 == AfterFixed(b1, lid_45, "day45", resp)
                b3 == AfterFixed(b2, lid_67, "day67", resp)
            IN [raised |-> FALSE, best_total |-> b3.best_total, best_desc |-> b3.best_desc]

----------------------------------------------------------------------------
(* Inputs of the aggregator *)

\* The name of the k-th 6-hour sublayer in chronological order, k = 1, 2, ...:
\* "QPF_0-6", "QPF_6-12", ...
SixHourName(k) == <<"Q", "P", "F", "_">> \o Str(6 * (k - 1)) \o <<"-">> \o Str(6 * k)

\* The response of a layer query whose first feature has attribute qpf = v
QpfResponse(v) == [features |-> <<[attributes |-> [qpf |-> [num |-> v]]]>>]

\* The sublayer list and the responses that give the aggregator the samples vs
SublayersFor(vs) == [k \in 1..Len(vs) |-> <<k, SixHourName(k)>>]
ResponsesFor(vs) == [k \in 1..Len(vs) |-> QpfResponse(vs[k])]

\* [0.1]*4 + [0.2]*4 + [0.05]*4
Scenario == <<10, 10, 10, 10, 20, 20, 20, 20, 5, 5, 5, 5>>

SampleLists == UNION {[1..n -> 0..MaxVal] : n \in 0..MaxLen} \cup {Scenario}

\* What main() holds before its first statement, and what the specifications
\* of single functions leave untouched
MainIdle ==
    /\ items_file = <<>> /\ feed_file = <<>> /\ state_file = <<>>
    /\ items = <<>> /\ state = [alert_active |-> FALSE]
    /\ root = <<>> /\ best_total = 0 /\ best_desc = <<>> /\ alerted = FALSE
    /\ pre = [items |-> <<>>, feed |-> <<>>, state |-> <<>>] /\ added = <<>>
    /\ emitted = 0 /\ crossings = 0 /\ last_total = <<>>

----------------------------------------------------------------------------
(* SpecWin: sliding_48h_from_6h_layers applied to every bounded sample list *)

InitWin ==
    /\ pc = "call_sliding"
    /\ arg \in SampleLists
    /\ ret = <<>>
    /\ MainIdle

CallSliding ==
    /\ pc = "call_sliding"
    /\ pc' = "returned_sliding"
    /\ ret' = sliding_48h_from_6h_layers(SublayersFor(arg), ResponsesFor(arg))
    /\ UNCHANGED <<mainData, arg>>

NextWin == CallSliding

SpecWin == InitWin /\ [][NextWin]_vars

\* The sum of the 8 samples starting at (1-based) index i
WindowSum(vs, i) == vs[i] + vs[i+1] + vs[i+2] + vs[i+3] + vs[i+4] + vs[i+5] + vs[i+6] + vs[i+7]

WindowStarts(vs) == 1..(Len(vs) - WINDOW + 1)

IsTrueMax(vs, m) ==
    /\ \E i \in WindowStarts(vs) : WindowSum(vs, i) = m
    /\ \A i \in WindowStarts(vs) : WindowSum(vs, i) <= m

\* The smallest start index whose window sum is m
FirstStart(vs, m) ==
    CHOOSE i \in WindowStarts(vs) :
        /\ WindowSum(vs, i) = m
        /\ \A j \in WindowStarts(vs) : WindowSum(vs, j) = m => i <= j

RangeIs(r, vs, i) ==
    /\ r # None
    /\ r[1].start = SixHourName(i)
    /\ r[1].end = SixHourName(i + WINDOW - 1)

C7_AsStated ==
    (pc = "returned_sliding" /\ arg = Scenario) =>
        /\ ret.total = 100
        /\ RangeIs(ret.range, arg, 5)

\* C7 amended: on the scenario samples the best window is samples 0..7
\* (0-based) with total 1.20
C7_ScenarioBestIsFirstWindow ==
    (pc = "returned_sliding" /\ arg = Scenario) =>
        /\ ret.total = 120
        /\ RangeIs(ret.range, arg, 1)
        /\ ret.range[1].total = 120

C7_Witness ==
    /\ pc = "returned_sliding"
    /\ arg = Scenario
    /\ ret.total >= THRESHOLD_IN

\* C8: for fewer than 8 samples the aggregator returns total 0 and no range
C8_ShortListNoWindow ==
    (pc = "returned_sliding" /\ Len(arg) < WINDOW) =>
        /\ ret.total = 0
        /\ ret.range = None

C8_Witness ==
    /\ pc = "returned_sliding"
    /\ Len(arg) = WINDOW - 1
    /\ \A k \in 1..Len(arg) : arg[k] > 0
    /\ ret.total = 0

----------------------------------------------------------------------------
(* Layer catalogs *)

TopLayer(id, name) == [id |-> id, name |-> name, parentLayerId |-> -1]
ChildLayer(id, name, parent) == [id |-> id, name |-> name, parentLayerId |-> parent]
\* A layer descriptor without the parentLayerId field
BareLayer(id, name) == [id |-> id, name |-> name]

GROUP_NAME == <<"G", "r", "o", "u", "p">>
MISC_NAME == <<"M", "i", "s", "c">>

\* The layers generated catalogs are made of
LayerPool == <<
    BareLayer(20, NAME_48_DAY12),
    TopLayer(21, NAME_48_DAY45),
    TopLayer(0, NAME_6H_PARENT),
    ChildLayer(2, SixHourName(2), 0),
    ChildLayer(1, SixHourName(1), 0),
    ChildLayer(3, MISC_NAME, 0),
    [id |-> 30, name |-> GROUP_NAME, parentLayerId |-> -1,
     subLayers |-> <<[id |-> 0, name |-> NAME_6H_PARENT]>>],
    [id |-> 40] >>

GeneratedCatalogs ==
    {[layers |-> [k \in 1..Len(ix) |-> LayerPool[ix[k]]]] :
        ix \in UNION {[1..n -> 1..Len(LayerPool)] : n \in 0..MaxLayers}}

\* The 6-hour group with its first n sublayers, listed with the first two swapped
SixHourGroup(n) ==
    <<[id |-> 0, name |-> NAME_6H_PARENT, parentLayerId |-> -1,
       subLayers |-> [k \in 1..n |-> [id |-> k, name |-> SixHourName(k)]]]>>
    \o [k \in 1..n |-> LET j == IF k = 1 THEN 2 ELSE IF k = 2 THEN 1 ELSE k
                       IN ChildLayer(j, SixHourName(j), 0)]

CatFull ==
    [layers |-> SixHourGroup(WINDOW) \o <<TopLayer(20, NAME_48_DAY12),
                TopLayer(21, NAME_48_DAY45), TopLayer(22, NAME_48_DAY67)>>]
CatNo45 ==
    [layers |-> SixHourGroup(WINDOW) \o <<TopLayer(20, NAME_48_DAY12),
                TopLayer(22, NAME_48_DAY67)>>]
CatFixedOnly ==
    [layers |-> <<TopLayer(20, NAME_48_DAY12), TopLayer(21, NAME_48_DAY45),
                  TopLayer(22, NAME_48_DAY67)>>]
CatShort ==
    [layers |-> SixHourGroup(WINDOW - 1) \o <<TopLayer(20, NAME_48_DAY12),
                TopLayer(21, NAME_48_DAY45), TopLayer(22, NAME_48_DAY67)>>]
CatEmpty == [layers |-> <<>>]
CatNoLayers == [currentVersion |-> 11]
\* No 6-hour group, and descriptors without parentLayerId
CatBare ==
    [layers |-> [k \in 1..5 |-> BareLayer(k, SixHourName(k))]
                \o <<BareLayer(20, NAME_48_DAY12), BareLayer(21, NAME_48_DAY45),
                     BareLayer(22, NAME_48_DAY67)>>]
CatBareShort ==
    [layers |-> <<BareLayer(20, NAME_48_DAY12), BareLayer(21, NAME_48_DAY45),
                  BareLayer(22, NAME_48_DAY67)>>]
\* A descriptor with neither name nor parentLayerId
CatNameless == [layers |-> <<TopLayer(20, NAME_48_DAY12), [id |-> 40]>>]

Catalogs == {CatFull, CatNo45, CatFixedOnly, CatShort, CatEmpty, CatNoLayers,
             CatBare, CatBareShort, CatNameless}

\* The ids of the layers main() may query
LayerIds == (0..WINDOW) \cup {20, 21, 22}

\* The response of a layer query with no feature at the point
NoFeatures == [features |-> <<>>]

\* A response without the qpf attribute: point_query falls back on the
\* largest numeric attribute
FallbackResponse(v) ==
    [features |-> <<[attributes |-> [amount |-> [num |-> v], units |-> [str |-> "in"]]]>>]

\* The responses of a run: every 6-hour sublayer reports a, the three fixed
\* layers t12, t45 and t67
Profile(a, t12, t45, t67) ==
    [lid \in LayerIds |->
        LET v == IF lid = 20 THEN t12 ELSE IF lid = 21 THEN t45
                 ELSE IF lid = 22 THEN t67 ELSE a
        IN IF v = 0 THEN NoFeatures
           ELSE IF lid = 22 THEN FallbackResponse(v) ELSE QpfResponse(v)]

SubValues == {0, 2, 5}
FixedValues == {0, 16, 29, 30, 40}

Profiles == {Profile(a, t12, t45, t67) :
                a \in SubValues, t12 \in FixedValues, t45 \in FixedValues, t67 \in FixedValues}

----------------------------------------------------------------------------
(* SpecCat: discover_6h_sublayers applied to every generated catalog *)

InitCat ==
    /\ pc = "call_discover"
    /\ arg \in GeneratedCatalogs \cup Catalogs
    /\ ret = <<>>
    /\ MainIdle

CallDiscover ==
    /\ pc = "call_discover"
    /\ pc' = "returned_discover"
    /\ ret' = discover_6h_sublayers(arg)
    /\ UNCHANGED <<mainData, arg>>

NextCat == CallDiscover

SpecCat == InitCat /\ [][NextCat]_vars

\* Every descriptor of a catalog: the top-level layers and their nested entries
AllEntries(cat) == Layers(cat) \o NestedFrom(Layers(cat), 1)

NoLayerNamed(cat, name) ==
    \A k \in 1..Len(AllEntries(cat)) : Get(AllEntries(cat)[k], "name") # Some(name)

\* C9 as stated: without a layer named NAME_6H_PARENT the discovery returns the
\* empty list, and every layer it returns has a parentLayerId equal to the id
\* of the named parent.
C9_AsStated ==
    pc = "returned_discover" =>
        /\ NoLayerNamed(arg, NAME_6H_PARENT) => (~ret.raised /\ ret.out = <<>>)
        /\ \A k \in 1..Len(ret.out) :
              \E j \in 1..Len(Layers(arg)) :
                 /\ Layers(arg)[j]["id"] = ret.out[k][1]
                 /\ "parentLayerId" \in DOMAIN Layers(arg)[j]
                 /\ Some(Layers(arg)[j]["parentLayerId"])
                        = find_layer_id_by_name(arg, NAME_6H_PARENT)

----------------------------------------------------------------------------
(* SpecSel: the best-forecast selection of main() applied to every catalog *)
(* and every profile of responses                                          *)

InitSel ==
    /\ pc = "call_select"
    /\ arg \in [root : Catalogs, resp : Profiles]
    /\ ret = <<>>
    /\ MainIdle

CallSelect ==
    /\ pc = "call_select"
    /\ pc' = "returned_select"
    /\ ret' = BestForecast(arg.root, arg.resp)
    /\ UNCHANGED <<mainData, arg>>

NextSel == CallSelect

SpecSel == InitSel /\ [][NextSel]_vars

\* The sublayers of the layer named NAME_6H_PARENT, in catalog order; none
\* when no layer has that name
TrueChildren(cat) ==
    IF NoLayerNamed(cat, NAME_6H_PARENT) THEN <<>>
    ELSE ChildrenFrom(Layers(cat), find_layer_id_by_name(cat, NAME_6H_PARENT), 1)

SourceOrder == <<"sliding", "day12", "day45", "day67">>

FixedName(src) == IF src = "day12" THEN NAME_48_DAY12
                  ELSE IF src = "day45" THEN NAME_48_DAY45 ELSE NAME_48_DAY67

\* A source is available when its layer id resolves and, for the sliding
\* window, when the 6-hour group has at least 8 sublayers
Available(cat, src) ==
    IF src = "sliding" THEN Len(TrueChildren(cat)) >= WINDOW
    ELSE find_layer_id_by_name(cat, FixedName(src)) # None

SourceTotal(cat, resp, src) ==
    IF src = "sliding"
    THEN LET kids == TrueChildren(cat)
             out == [k \in 1..Len(kids) |-> <<kids[k]["id"], kids[k]["name"]>>]
         IN sliding_48h_from_6h_layers(SortByStart(out, Len(out)), resp).total
    ELSE point_query(resp[find_layer_id_by_name(cat, FixedName(src))[1]])

AvailableSources(cat) == {k \in 1..Len(SourceOrder) : Available(cat, SourceOrder[k])}

\* C3 as stated: the best total is the maximum of the totals of the available
\* sources, 0 when there is none; a recorded description is that of the
\* earliest source, in precedence order, whose total equals the best total.
C3_AsStated ==
    (pc = "returned_select" /\ ~ret.raised) =>
        LET av == AvailableSources(arg.root)
            tot(k) == SourceTotal(arg.root, arg.resp, SourceOrder[k])
        IN /\ \A k \in av : tot(k) <= ret.best_total
           /\ ret.best_total # 0 => \E k \in av : tot(k) = ret.best_total
           /\ ret.best_desc # <<>> =>
                 \E k \in av : /\ tot(k) = ret.best_total
                               /\ \A j \in av : tot(j) = ret.best_total => k <= j
                               /\ ret.best_desc[1].src = SourceOrder[k]

----------------------------------------------------------------------------
(* main(): persistence, alert decision and outputs *)

\* load_json(path, default): the default when the file cannot be read
load_json(file, default) == IF file = <<>> THEN default ELSE file[1]

\* state.get("alert_active", False)
AlertActive(st) == IF "alert_active" \in DOMAIN st THEN st["alert_active"] ELSE FALSE

\* Line 194 without `not state.get(...)`: an alert on every run above the threshold
should_alert_level(bt, st) == bt >= THRESHOLD_IN

\* Line 194
should_alert(bt, st) == bt >= THRESHOLD_IN /\ ~AlertActive(st)

\* add_item: the new item at the head of the list.  An item is its guid; title,
\* description, link and pubDate are written once and never read back by main()
add_item(its, guid) == <<[guid |-> guid]>> \o its

\* Line 200
SetActive(st, sa) == IF sa THEN ("alert_active" :> TRUE) @@ st ELSE st

\* Lines 203-204 left out: the flag is never reset
reset_never(st, bt) == st

\* Line 203 with `<=` for `<`
reset_at_threshold(st, bt) ==
    IF AlertActive(st) /\ bt <= THRESHOLD_IN THEN ("alert_active" :> FALSE) @@ st ELSE st

\* Lines 203-204
ResetBelow(st, bt) ==
    IF AlertActive(st) /\ bt < THRESHOLD_IN THEN ("alert_active" :> FALSE) @@ st ELSE st

\* write_rss without the cap of line 129
write_rss_all(its) == its

\* write_rss: the <item> elements of the document written to feed.xml
write_rss(its) == Take(its, MAX_ITEMS)

\* Line 207 without the cap
items_json_all(its) == its

\* Line 207: the list written to items.json
items_json(its) == Take(its, MAX_ITEMS)

\* int(time.time()) of add_item: later items have larger guids
NextGuid == Len(added) + 1

\* The catalogs and the responses the service gives a run of main()
MainCatalogs == Catalogs \ {CatBare}
MainSubValues == {0, 5}
MainFixedValues == {0, 29, 30}
MainProfiles == {Profile(a, t12, t45, t67) :
                    a \in MainSubValues, t12 \in MainFixedValues,
                    t45 \in MainFixedValues, t67 \in MainFixedValues}

\* For each catalog, what lines 156-191 compute over all the profiles
Selections == [c \in MainCatalogs |-> {BestForecast(c, p) : p \in MainProfiles}]

Init ==
    /\ pc = "idle"
    /\ MainIdle
    /\ arg = <<>>
    /\ ret = <<>>

\* Lines 151-152
Load ==
    /\ pc \in {"idle", "done", "failed"}
    /\ Len(added) < MaxAdded
    /\ items' = load_json(items_file, <<>>)
    /\ state' = load_json(state_file, [alert_active |-> FALSE])
    /\ pre' = [items |-> items_file, feed |-> feed_file, state |-> state_file]
    /\ root' = <<>> /\ best_total' = 0 /\ best_desc' = <<>> /\ alerted' = FALSE
    /\ pc' = "fetch"
    /\ UNCHANGED <<items_file, feed_file, state_file, added, emitted, crossings,
                   last_total, arg, ret>>

\* Line 154
Fetch ==
    /\ pc = "fetch"
    /\ \E c \in MainCatalogs : root' = Some(c)
    /\ pc' = "select"
    /\ UNCHANGED <<items_file, feed_file, state_file, items, state, best_total,
                   best_desc, alerted, pre, added, emitted, crossings, last_total,
                   arg, ret>>

\* The process has ended: its locals are gone
LocalsGone ==
    /\ items' = <<>> /\ state' = [alert_active |-> FALSE]
    /\ root' = <<>> /\ best_total' = 0 /\ best_desc' = <<>> /\ alerted' = FALSE

\* Lines 156-191.  `root` is not read after line 159 and is dropped here
Select ==
    /\ pc = "select"
    /\ \E sel \in Selections[root[1]] :
          /\ ~sel.raised
          /\ best_total' = sel.best_total
          /\ best_desc' = sel.best_desc
    /\ root' = <<>>
    /\ pc' = "decide"
    /\ UNCHANGED <<items_file, feed_file, state_file, items, state, alerted,
                   pre, added, emitted, crossings, last_total, arg, ret>>

\* Line 159 raising KeyError
SelectRaises ==
    /\ pc = "select"
    /\ \E sel \in Selections[root[1]] : sel.raised
    /\ pc' = "failed"
    /\ LocalsGone
    /\ UNCHANGED <<items_file, feed_file, state_file, pre, added, emitted, crossings,
                   last_total, arg, ret>>

\* Lines 194-204
Decide ==
    /\ pc = "decide"
    /\ alerted' = should_alert(best_total, state)
    /\ items' = IF alerted' THEN add_item(items, NextGuid) ELSE items
    /\ state' = ResetBelow(SetActive(state, alerted'), best_total)
    /\ pc' = "write_items"
    /\ UNCHANGED <<items_file, feed_file, state_file, root, best_total, best_desc,
                   pre, added, emitted, crossings, last_total, arg, ret>>

\* Line 207
WriteItems ==
    /\ pc = "write_items"
    /\ items_file' = Some(items_json(items))
    /\ added' = IF alerted THEN <<items[1]>> \o added ELSE added
    /\ pc' = "write_rss"
    /\ UNCHANGED <<feed_file, state_file, items, state, root, best_total, best_desc,
                   alerted, pre, emitted, crossings, last_total, arg, ret>>

\* Line 208
WriteRss ==
    /\ pc = "write_rss"
    /\ feed_file' = Some(write_rss(items))
    /\ pc' = "write_state"
    /\ UNCHANGED <<items_file, state_file, items, state, root, best_total, best_desc,
                   alerted, pre, added, emitted, crossings, last_total, arg, ret>>

\* Lines 209-210: the run completes
WriteState ==
    /\ pc = "write_state"
    /\ state_file' = Some(state)
    /\ emitted' = IF alerted THEN emitted + 1 ELSE emitted
    /\ crossings' = IF /\ best_total >= THRESHOLD_IN
                       /\ (last_total = <<>> \/ last_total[1] < THRESHOLD_IN)
                    THEN crossings + 1 ELSE crossings
    /\ last_total' = Some(best_total)
    /\ pc' = "done"
    /\ LocalsGone
    /\ UNCHANGED <<items_file, feed_file, pre, added, arg, ret>>

\* An uncaught exception: urlopen or json.loads of lines 154 and 80, or
\* write_text of lines 207, 148 and 209, raises and the process ends
RunFails ==
    /\ pc \in {"fetch", "select", "write_items", "write_rss", "write_state"}
    /\ pc' = "failed"
    /\ LocalsGone
    /\ UNCHANGED <<items_file, feed_file, state_file, pre, added, emitted, crossings,
                   last_total, arg, ret>>

Next ==
    \/ Load \/ Fetch \/ Select \/ SelectRaises \/ Decide
    \/ WriteItems \/ WriteRss \/ WriteState \/ RunFails

Spec == Init /\ [][Next]_vars

----------------------------------------------------------------------------
(* Properties of the runs of main() *)

\* alert_active as the run loaded it (line 152)
LoadedActive == AlertActive(load_json(pre.state, [alert_active |-> FALSE]))

\* C1: over the completed runs the number of emitted items equals the number
\* of Inactive->Active crossings of their best totals, and a run that is about
\* to complete has emitted an item only if it is the first completed run or
\* the previous completed run was below the threshold.
C1_AlertsAreCrossings ==
    /\ emitted = crossings
    /\ (pc = "write_state" /\ alerted) =>
           (last_total = <<>> \/ last_total[1] < THRESHOLD_IN)

C1_Witness ==
    /\ pc = "done"
    /\ LoadedActive
    /\ last_total[1] >= THRESHOLD_IN
    /\ emitted = 2
    /\ crossings = 2

\* C4 as stated: when a run has failed, the three files hold what they held
\* when the run started (a file that did not exist may have been created with
\* the content a missing file stands for).
C4_AsStated ==
    pc = "failed" =>
        /\ load_json(items_file, <<>>) = load_json(pre.items, <<>>)
        /\ load_json(feed_file, <<>>) = load_json(pre.feed, <<>>)
        /\ AlertActive(load_json(state_file, [alert_active |-> FALSE]))
               = AlertActive(load_json(pre.state, [alert_active |-> FALSE]))

\* C5: once write_rss has run, the feed holds the first MAX_ITEMS of the items
\* ever added, newest first; with more than MAX_ITEMS items added it holds
\* exactly MAX_ITEMS.
C5_FeedIsNewestMaxItems ==
    pc \in {"write_state", "done"} =>
        /\ feed_file = Some(Take(added, MAX_ITEMS))
        /\ Len(added) > MAX_ITEMS => Len(feed_file[1]) = MAX_ITEMS
        /\ \A i, j \in 1..Len(feed_file[1]) :
              i < j => feed_file[1][i].guid > feed_file[1][j].guid

C5_Witness ==
    /\ pc = "done"
    /\ Len(added) > MAX_ITEMS
    /\ Len(feed_file[1]) = MAX_ITEMS
    /\ feed_file[1][1].guid = Len(added)

\* C6: a completed run that loaded alert_active = true and computed a best
\* total below the threshold persists alert_active = false and the item list it
\* loaded; a run whose best total reaches the threshold after a completed run
\* below it adds exactly one item to the list it loaded.
C6_ResetThenRearm ==
    /\ (pc = "done" /\ LoadedActive /\ last_total[1] < THRESHOLD_IN) =>
           /\ state_file # <<>> /\ ~AlertActive(state_file[1])
           /\ items_file = pre.items
    /\ (/\ pc = "write_state" /\ best_total >= THRESHOLD_IN
        /\ last_total # <<>> /\ last_total[1] < THRESHOLD_IN) =>
           /\ alerted
           /\ Tail(items) = load_json(pre.items, <<>>)
           /\ items[1] \notin {added[k] : k \in 2..Len(added)}

C6_Witness ==
    /\ pc = "done"
    /\ LoadedActive
    /\ last_total[1] < THRESHOLD_IN
    /\ ~AlertActive(state_file[1])
    /\ emitted >= 1

\* C10: after a completed run the persisted alert_active is true exactly when
\* the run's best total reached the threshold.
C10_FlagIsLevel ==
    pc = "done" =>
        /\ state_file # <<>>
        /\ AlertActive(state_file[1]) = (last_total[1] >= THRESHOLD_IN)

C10_Witness ==
    /\ pc = "done"
    /\ LoadedActive
    /\ last_total[1] = THRESHOLD_IN
    /\ AlertActive(state_file[1])

====
